---- MODULE Spec2Model ----
(***************************************************************************)
(* Session store, rate limiter and request validation of the Gemini        *)
(* multi-image analysis backend (backend/src/utils/session.ts and          *)
(* backend/src/app.ts).                                                    *)
(*                                                                         *)
(* Timestamps are milliseconds since the epoch: toISOString() and          *)
(* new Date(iso) are exact at millisecond precision, and Date comparison   *)
(* compares the millisecond values.                                        *)
(***************************************************************************)
EXTENDS Integers, Sequences, FiniteSets, Bags, TLC

\* ------------------------------------------------------------------ bounds
MaxSessions == 2
MaxAdvances == 3
MaxExtraCalls == 1
\* image ids that requests name; an upload is followed while the next id is
\* among them
MaxImages == 1
\* the POST requests and waits a behaviour of the HTTP specifications holds
MaxSteps == 4
\* RATE_LIMIT_REQUESTS of the deployment the HTTP specification explores
EnvRateLimitRequests == 1

\* ------------------------------------------------------- program constants
DefaultRequestsPerMinute == 10
DefaultTokensPerMinute == 250000
EXPIRY_TIME == 3600000
MsPerMinute == 60000
MaxImageIds == 5
MaxPromptLength == 2000
RetryAfter == 60
MaxUploadFiles == 5
MulterFileSize == 104857600
maxTotalSize == 104857600
maxFileSize == 104857600
\* The limits the integration tests of the upload endpoint expect
\* (file-limits.test.ts): 5 MB per file and 20 MB per request.
StatedFileSize == 5242880
StatedTotalSize == 20971520
DefaultHistoryLimit == 10
MaxHistoryLimit == 50

VARIABLES
    RATE_LIMITS,    \* session.ts: const RATE_LIMITS, read from the environment at load
    now,            \* the wall clock read by new Date()
    advances,       \* number of times the clock has moved (bounded)
    sessions,       \* session.ts: const sessions = new Map<string, Session>()
    nextSessionId,  \* randomUUID(): ids are fresh, never reused
    window,         \* history: per session, the requests-kind calls of the current window
    imageStorage,   \* app.ts: const imageStorage = new Map<string, StoredImage>()
    nextImageId,    \* randomUUID() for images
    analysisRequests, \* app.ts: const analysisRequests = new Map<string, AnalysisRequest>()
    nextRequestId,  \* randomUUID() for analysis ids and request ids
    videoOperations, \* app.ts: const videoOperations = new Map<string, any>()
    pending,        \* collaborator calls a handler is awaiting (a bag)
    steps,          \* requests received and waits taken so far (bounded)
    resp            \* the last operation, its arguments and what it returned

appVars == <<imageStorage, nextImageId, analysisRequests, nextRequestId,
             videoOperations, pending, steps>>

vars == <<RATE_LIMITS, now, advances, sessions, nextSessionId, window,
          imageStorage, nextImageId, analysisRequests, nextRequestId,
          videoOperations, pending, steps, resp>>

\* ---------------------------------------------------------------- helpers
SessionId(n) == <<"session", n>>
UnknownUuid == <<"other", 0>>
MalformedId == <<"malformed", 0>>
MissingId == <<"missing", 0>>

Min(a, b) == IF a < b THEN a ELSE b
MapSet(m, k, v) == [x \in (DOMAIN m) \cup {k} |-> IF x = k THEN v ELSE m[x]]
MapDelete(m, ks) == [x \in (DOMAIN m) \ ks |-> m[x]]

NoResp == [op |-> "none"]

\* Elapsed milliseconds between the two clock reads of one synchronous
\* handler: none, or the millisecond that carries the clock over a minute
\* boundary (any other elapsed time leaves every computed value the same).
ClockSkew == {d \in {0, 1} : d = 0 \/ (now + d) % MsPerMinute = 0}
TickSteps == {1, MsPerMinute - 1, EXPIRY_TIME}
CanAdvance(d) == d = 0 \/ advances < MaxAdvances
Advanced(d) == IF d = 0 THEN advances ELSE advances + 1

\* ------------------------------------------------------------- session.ts
\* Mutation: rounds up, so a time on a boundary is its own "next" boundary.
roundUpToMinute(t) == ((t + MsPerMinute - 1) \div MsPerMinute) * MsPerMinute

getNextMinuteBoundary(t) == (t \div MsPerMinute) * MsPerMinute + MsPerMinute

\* parseInt(process.env.X || default): an unset variable gives the default,
\* a decimal string its value.
Unset == << >>
envInt(value, default) == IF value = Unset THEN default ELSE value[1]

rateLimitsFromEnv(requests, tokens) ==
    [REQUESTS_PER_MINUTE |-> envInt(requests, DefaultRequestsPerMinute),
     TOKENS_PER_MINUTE |-> envInt(tokens, DefaultTokensPerMinute)]

\* Mutation: the token window is started a minute after the request window.
createStaggeredRateLimits(t) ==
    [requestsPerMinute |-> [limit |-> RATE_LIMITS.REQUESTS_PER_MINUTE,
                            remaining |-> RATE_LIMITS.REQUESTS_PER_MINUTE,
                            resetAt |-> getNextMinuteBoundary(t)],
     tokensPerMinute |-> [limit |-> RATE_LIMITS.TOKENS_PER_MINUTE,
                          remaining |-> RATE_LIMITS.TOKENS_PER_MINUTE,
                          resetAt |-> getNextMinuteBoundary(t) + MsPerMinute]]

createInitialRateLimits(t) ==
    LET resetAt == getNextMinuteBoundary(t)
    IN [requestsPerMinute |-> [limit |-> RATE_LIMITS.REQUESTS_PER_MINUTE,
                               remaining |-> RATE_LIMITS.REQUESTS_PER_MINUTE,
                               resetAt |-> resetAt],
        tokensPerMinute |-> [limit |-> RATE_LIMITS.TOKENS_PER_MINUTE,
                             remaining |-> RATE_LIMITS.TOKENS_PER_MINUTE,
                             resetAt |-> resetAt]]

\* createSession: createdAt is read first (line 69), the boundary is
\* computed from a second clock read (line 37), d milliseconds later.
newSession(sessionId, t, d) ==
    [sessionId |-> sessionId,
     createdAt |-> t,
     rateLimits |-> createInitialRateLimits(t + d)]

Null == [null |-> TRUE]

getSession(sessionId) ==
    IF sessionId \in DOMAIN sessions THEN sessions[sessionId] ELSE Null

limitKey(type) == IF type = "requests" THEN "requestsPerMinute" ELSE "tokensPerMinute"
otherKey(type) == IF type = "requests" THEN "tokensPerMinute" ELSE "requestsPerMinute"

\* Mutation: the window is still open at the very instant of resetAt.
WindowExpiredStrict(t, rateLimit) == t > rateLimit.resetAt

WindowExpired(t, rateLimit) == t >= rateLimit.resetAt

ResetInfo(rateLimit, newResetAt) ==
    [rateLimit EXCEPT !.remaining = rateLimit.limit, !.resetAt = newResetAt]

\* Mutation: an expired window of the checked kind resets that counter alone.
resetOwnWindow(rateLimits, type, t, d) ==
    IF WindowExpired(t, rateLimits[limitKey(type)])
    THEN [rateLimits EXCEPT ![limitKey(type)] = ResetInfo(@, getNextMinuteBoundary(t + d))]
    ELSE rateLimits

\* Lines 163-185: t is `now` (line 159), t + d the clock read inside
\* getNextMinuteBoundary (line 37).
resetWindows(rateLimits, type, t, d) ==
    IF WindowExpired(t, rateLimits[limitKey(type)])
    THEN LET newResetAt == getNextMinuteBoundary(t + d)
             own == [rateLimits EXCEPT ![limitKey(type)] = ResetInfo(@, newResetAt)]
         IN  IF WindowExpired(t, own[otherKey(type)])
             THEN [own EXCEPT ![otherKey(type)] = ResetInfo(@, newResetAt)]
             ELSE own
    ELSE rateLimits

\* Mutation: the boundary is exclusive.
AllowedStrict(rateLimit, amount) == rateLimit.remaining > amount

\* Mutation: the budget is never enforced.
AllowedAlways(rateLimit, amount) == rateLimit.remaining >= amount \/ amount >= 0

Allowed(rateLimit, amount) == rateLimit.remaining >= amount

\* Mutation: an allowed call takes nothing from the budget.
ConsumeNothing(rateLimit, amount) == [rateLimit EXCEPT !.remaining = @ - (amount - amount)]

Consume(rateLimit, amount) == [rateLimit EXCEPT !.remaining = @ - amount]

\* Mutation: a refused call drains what is left of the counter.
consumeWhatIsLeft(rateLimits, type, amount) ==
    IF Allowed(rateLimits[limitKey(type)], amount)
    THEN [rateLimits EXCEPT ![limitKey(type)] = Consume(@, amount)]
    ELSE [rateLimits EXCEPT ![limitKey(type)] = Consume(@, @.remaining)]

\* Lines 187-213 applied to the (possibly reset) limits.
consumeIfAllowed(rateLimits, type, amount) ==
    IF Allowed(rateLimits[limitKey(type)], amount)
    THEN [rateLimits EXCEPT ![limitKey(type)] = Consume(@, amount)]
    ELSE rateLimits

\* checkRateLimit as a function of the store: the returned verdict and the
\* store after the call.
checkRateLimit(store, sessionId, type, amount, t, d) ==
    IF sessionId \notin DOMAIN store
    THEN [allowed |-> FALSE, found |-> FALSE, store |-> store]
    ELSE LET session == store[sessionId]
             fresh == resetWindows(session.rateLimits, type, t, d)
             after == consumeIfAllowed(fresh, type, amount)
         IN  [allowed |-> Allowed(fresh[limitKey(type)], amount),
              found |-> TRUE,
              store |-> MapSet(store, sessionId, [session EXCEPT !.rateLimits = after])]

\* An expiry test that counts the age of exactly one hour as expired.
ExpiredAtHour(session, t) == t - session.createdAt >= EXPIRY_TIME

\* Line 255: now.getTime() - createdTime.getTime() > EXPIRY_TIME
Expired(session, t) == t - session.createdAt > EXPIRY_TIME

expiredSessions(store, t) == {id \in DOMAIN store : Expired(store[id], t)}

\* -------------------------------------------------- history of the window
NewWindow == [calls |-> 0, admitted |-> 0]

\* The requests-kind calls (each of amount 1) made on a session since its
\* requests window began, and how many of them were allowed.
windowAfter(w, before, after, type, allowed) ==
    LET base == IF after.requestsPerMinute.resetAt # before.requestsPerMinute.resetAt
                THEN NewWindow ELSE w
    IN  IF type # "requests" THEN base
        ELSE [calls |-> base.calls + 1,
              admitted |-> base.admitted + (IF allowed THEN 1 ELSE 0)]

\* Requests are counted one at a time (the default amount, and the only one
\* the endpoints pass); token amounts range over none, half the budget and
\* more than the budget.
RequestAmounts == {1}
TokenAmounts ==
    {0, RATE_LIMITS.TOKENS_PER_MINUTE \div 2, RATE_LIMITS.TOKENS_PER_MINUTE + 1}
Amounts(type) == IF type = "requests" THEN RequestAmounts ELSE TokenAmounts

SessionRefs == {SessionId(n) : n \in 1..MaxSessions} \cup {UnknownUuid}
\* The limiter specification follows one session through its life.
LimiterRefs == {SessionId(1), UnknownUuid}

\* ----------------------------------------------------------------- app.ts
ImageId(n) == <<"image", n>>
RequestId(n) == <<"request", n>>
AnalysisId(n) == <<"analysis", n>>
OperationId(n) == <<"operation", n>>

MinOf(S) == CHOOSE x \in S : \A y \in S : x <= y

\* uuidRegex.test(id): true of every id randomUUID() returned and of any
\* other UUID-shaped string.
isUuid(id) == id[1] \in {"session", "image", "request", "analysis", "operation", "other"}
\* !req.body.sessionId, !req.body.imageId
isAbsent(id) == id[1] = "missing"

Response(status, error, message) ==
    [status |-> status, error |-> error, message |-> message]
ValidationError(message) == Response(400, "validation_error", message)
InternalError(message) == Response(500, "Internal Server Error", message)
RateLimitExceeded(limits) ==
    [status |-> 429, error |-> "rate_limit_exceeded", message |-> "Rate limit exceeded",
     retryAfter |-> RetryAfter, limits |-> limits]
\* No response yet: the handler is awaiting the collaborator.
Awaiting == Response(0, "", "awaiting collaborator")

\* Mutation: the session lookup is skipped.
sessionNeverMissing(sessionId) == getSession(sessionId) = Null /\ isAbsent(sessionId)

sessionMissing(sessionId) == getSession(sessionId) = Null

\* The sessionId checks shared by POST /images, /analyze and /videos/generate.
sessionError(sessionId) ==
    IF isAbsent(sessionId) THEN "sessionId is required"
    ELSE IF ~isUuid(sessionId) THEN "sessionId must be a valid UUID format"
    ELSE IF sessionMissing(sessionId) THEN "Session not found or invalid"
    ELSE "none"

\* Mutation: ownership is not checked.
ownedByAnyone(storedImage, sessionId) == storedImage.sessionId \in {sessionId, storedImage.sessionId}

ownedBy(storedImage, sessionId) == storedImage.sessionId = sessionId

imageIdError(imageId, sessionId) ==
    IF ~isUuid(imageId) THEN "ImageId must be a valid UUID format"
    ELSE IF imageId \notin DOMAIN imageStorage THEN "Image not found"
    ELSE IF ~ownedBy(imageStorage[imageId], sessionId)
         THEN "Image does not belong to this session"
    ELSE "none"

\* req.body.imageIds || []
imageIdsOf(body) ==
    IF body.imageIds.kind = "missing" THEN [kind |-> "array", ids |-> << >>]
    ELSE body.imageIds

\* imageIds.length > 0: an array or a string has a length, a number has none.
hasElements(imageIds) ==
    \/ imageIds.kind = "array" /\ Len(imageIds.ids) > 0
    \/ imageIds.kind = "string"

imageIdsError(imageIds, sessionId) ==
    IF ~hasElements(imageIds) THEN "none"
    ELSE IF imageIds.kind # "array" THEN "imageIds must be an array"
    ELSE IF Len(imageIds.ids) > MaxImageIds THEN "Maximum 5 imageIds allowed per request"
    ELSE LET bad == {i \in 1..Len(imageIds.ids) :
                        imageIdError(imageIds.ids[i], sessionId) # "none"}
         IN  IF bad = {} THEN "none"
             ELSE imageIdError(imageIds.ids[MinOf(bad)], sessionId)

\* The prompt checks with a length limit one character too generous.
promptErrorOffByOne(prompt) ==
    IF prompt.kind = "missing" \/ (prompt.kind = "string" /\ prompt.length = 0)
    THEN "prompt is required"
    ELSE IF prompt.kind # "string" \/ prompt.trimmed = 0
    THEN "prompt must be a non-empty string"
    ELSE IF prompt.length > MaxPromptLength + 1
    THEN "prompt exceeds maximum length of 2000 characters"
    ELSE "none"

\* Lines 741-766: the prompt checks of POST /api/v1/analyze.
promptError(prompt) ==
    IF prompt.kind = "missing" \/ (prompt.kind = "string" /\ prompt.length = 0)
    THEN "prompt is required"
    ELSE IF prompt.kind # "string" \/ prompt.trimmed = 0
    THEN "prompt must be a non-empty string"
    ELSE IF prompt.length > MaxPromptLength
    THEN "prompt exceeds maximum length of 2000 characters"
    ELSE "none"

\* What a handler's synchronous part leaves behind: its response (or
\* Awaiting), the session store, the collaborator calls it issued, and
\* whether it went through the rate-limit gate.
Outcome(response, store, calls, gate) ==
    [response |-> response, sessions |-> store, calls |-> calls, gate |-> gate]

\* POST /api/v1/analyze up to the await of geminiAnalyze (lines 630-784).
analyze(body, d) ==
    IF body.kind # "object"
    THEN Outcome(ValidationError("Request body must be valid JSON"), sessions, EmptyBag, "none")
    ELSE IF sessionError(body.sessionId) # "none"
    THEN Outcome(ValidationError(sessionError(body.sessionId)), sessions, EmptyBag, "none")
    ELSE LET gate == checkRateLimit(sessions, body.sessionId, "requests", 1, now, d)
             imageIds == imageIdsOf(body)
         IN  IF ~gate.allowed /\ ~gate.found
             \* requestRateCheck.session is null and so is session: line 683 throws
             THEN Outcome(InternalError("Failed to process analysis request"),
                          gate.store, EmptyBag, "refused")
             ELSE IF ~gate.allowed
             THEN Outcome(RateLimitExceeded(gate.store[body.sessionId].rateLimits),
                          gate.store, EmptyBag, "refused")
             ELSE IF imageIdsError(imageIds, body.sessionId) # "none"
             THEN Outcome(ValidationError(imageIdsError(imageIds, body.sessionId)),
                          gate.store, EmptyBag, "allowed")
             ELSE IF promptError(body.prompt) # "none"
             THEN Outcome(ValidationError(promptError(body.prompt)),
                          gate.store, EmptyBag, "allowed")
             ELSE IF imageIds.kind # "array"
             \* imageIds.map is not a function: caught at line 838
             THEN Outcome(InternalError("Failed to process analysis request"),
                          gate.store, EmptyBag, "allowed")
             ELSE Outcome(Awaiting, gate.store,
                          SetToBag({[kind |-> "analyze", sessionId |-> body.sessionId,
                                     imageIds |-> imageIds.ids, prompt |-> body.prompt]}),
                          "allowed")

videoImageError(imageId, sessionId) ==
    IF isAbsent(imageId) THEN "none"
    ELSE IF ~isUuid(imageId) THEN "imageId must be a valid UUID format"
    ELSE IF imageId \notin DOMAIN imageStorage THEN "Image not found"
    ELSE IF ~ownedBy(imageStorage[imageId], sessionId)
         THEN "Image does not belong to this session"
    ELSE "none"

videoOptionsError(options) ==
    IF options = "bad model" THEN "model must be one of the Veo models"
    ELSE IF options = "bad aspectRatio" THEN "aspectRatio must be either 16:9 or 9:16"
    ELSE IF options = "bad resolution" THEN "resolution must be either 720p or 1080p"
    ELSE "none"

\* POST /api/v1/videos/generate up to the await of startVideoGeneration
\* (lines 1167-1328).
generateVideo(body, d) ==
    IF body.kind # "object"
    THEN Outcome(ValidationError("Request body must be valid JSON"), sessions, EmptyBag, "none")
    ELSE IF sessionError(body.sessionId) # "none"
    THEN Outcome(ValidationError(sessionError(body.sessionId)), sessions, EmptyBag, "none")
    ELSE LET gate == checkRateLimit(sessions, body.sessionId, "requests", 1, now, d)
         IN  IF ~gate.allowed /\ ~gate.found
             \* requestRateCheck.session is null and so is session: line 1219 throws
             THEN Outcome(InternalError("Failed to start video generation"),
                          gate.store, EmptyBag, "refused")
             ELSE IF ~gate.allowed
             THEN Outcome(RateLimitExceeded(gate.store[body.sessionId].rateLimits),
                          gate.store, EmptyBag, "refused")
             ELSE IF promptError(body.prompt) # "none"
             THEN Outcome(ValidationError(promptError(body.prompt)),
                          gate.store, EmptyBag, "allowed")
             ELSE IF videoImageError(body.imageId, body.sessionId) # "none"
             THEN Outcome(ValidationError(videoImageError(body.imageId, body.sessionId)),
                          gate.store, EmptyBag, "allowed")
             ELSE IF videoOptionsError(body.options) # "none"
             THEN Outcome(ValidationError(videoOptionsError(body.options)),
                          gate.store, EmptyBag, "allowed")
             ELSE Outcome(Awaiting, gate.store,
                          SetToBag({[kind |-> "video", sessionId |-> body.sessionId,
                                     imageIds |-> IF isAbsent(body.imageId) THEN << >>
                                                  ELSE <<body.imageId>>,
                                     prompt |-> body.prompt]}),
                          "allowed")

\* The multer stage of POST /api/v1/images (lines 420-491): files are taken
\* in arrival order; upload.array('images', 5) refuses a sixth file of the
\* field with LIMIT_UNEXPECTED_FILE, then fileFilter checks the MIME type,
\* then the file is read up to limits.fileSize. The first error ends the
\* upload. (limits.files = 10 is never reached: the sixth file already
\* ends it.)
allowedMimeTypes == {"image/jpeg", "image/png", "image/webp", "image/gif"}

multerErrorAt(files, i) ==
    IF i > MaxUploadFiles THEN "LIMIT_UNEXPECTED_FILE"
    ELSE IF files[i].mimetype \notin allowedMimeTypes THEN "Unsupported file format"
    ELSE IF files[i].size > MulterFileSize THEN "LIMIT_FILE_SIZE"
    ELSE "none"

multerStage(files) ==
    LET bad == {i \in 1..Len(files) : multerErrorAt(files, i) # "none"}
    IN  IF bad = {} THEN "none" ELSE multerErrorAt(files, MinOf(bad))

\* The callback of upload.array (lines 442-486).
multerResponse(code) ==
    IF code = "LIMIT_FILE_SIZE"
    THEN ValidationError("File exceeds maximum size limit of 100MB")
    ELSE IF code = "LIMIT_FILE_COUNT"
    THEN ValidationError("Too many files uploaded. Maximum of 5 images allowed.")
    ELSE IF code = "Unsupported file format"
    THEN ValidationError("Unsupported file format")
    ELSE InternalError("Failed to process file upload")

RECURSIVE totalSize(_)
totalSize(files) ==
    IF files = << >> THEN 0 ELSE Head(files).size + totalSize(Tail(files))

\* The same checks with the limits of 5 MB per file and 20 MB per request.
uploadErrorStated(sessionId, files) ==
    IF sessionError(sessionId) # "none" THEN sessionError(sessionId)
    ELSE IF Len(files) = 0 THEN "No files provided"
    ELSE IF Len(files) > MaxUploadFiles
    THEN "Too many files uploaded. Maximum of 5 images allowed."
    ELSE IF totalSize(files) > StatedTotalSize
    THEN "Total upload size exceeds maximum allowed size of 100MB"
    ELSE IF \E i \in 1..Len(files) : files[i].size > StatedFileSize
    THEN "File exceeds maximum size limit of 100MB (named)"
    ELSE "none"

\* The handler of POST /api/v1/images after multer (lines 491-569).
uploadError(sessionId, files) ==
    IF sessionError(sessionId) # "none" THEN sessionError(sessionId)
    ELSE IF Len(files) = 0 THEN "No files provided"
    ELSE IF Len(files) > MaxUploadFiles
    THEN "Too many files uploaded. Maximum of 5 images allowed."
    ELSE IF totalSize(files) > maxTotalSize
    THEN "Total upload size exceeds maximum allowed size of 100MB"
    ELSE IF \E i \in 1..Len(files) : files[i].size > maxFileSize
    THEN "File exceeds maximum size limit of 100MB (named)"
    ELSE "none"

Created201 == Response(201, "", "created")

\* POST /api/v1/images: the response to an upload request.
uploadImages(sessionId, files) ==
    IF multerStage(files) # "none" THEN multerResponse(multerStage(files))
    ELSE IF uploadError(sessionId, files) # "none"
    THEN ValidationError(uploadError(sessionId, files))
    ELSE Created201

\* A loop that stores the first file only.
storedFirstImage(sessionId, files, first) ==
    [id \in {ImageId(first)} |->
        [id |-> id, sessionId |-> sessionId, originalName |-> files[1].originalname,
         mimeType |-> files[1].mimetype, sizeBytes |-> files[1].size]]

\* Lines 571-598: one StoredImage per file, each under a fresh id. (The
\* buffer and the upload timestamp are stored too; no check reads them.)
storedImages(sessionId, files, first) ==
    [id \in {ImageId(first + i - 1) : i \in 1..Len(files)} |->
        LET file == files[id[2] - first + 1]
        IN  [id |-> id, sessionId |-> sessionId, originalName |-> file.originalname,
             mimeType |-> file.mimetype, sizeBytes |-> file.size]]

MapMerge(m, n) == [x \in (DOMAIN m) \cup (DOMAIN n) |-> IF x \in DOMAIN n THEN n[x] ELSE m[x]]

\* ------------------------------------------------------ request alphabets
SessionInputs == {MissingId, MalformedId} \cup SessionRefs
ImageRefs == {ImageId(n) : n \in 1..MaxImages} \cup {UnknownUuid, MalformedId}

Prompt(kind, length, trimmed) == [kind |-> kind, length |-> length, trimmed |-> trimmed]
ValidPrompts == {Prompt("string", 1, 1), Prompt("string", MaxPromptLength, MaxPromptLength)}
PromptInputs ==
    ValidPrompts \cup
    {Prompt("missing", 0, 0), Prompt("string", 0, 0), Prompt("string", 3, 0),
     Prompt("number", 0, 0), Prompt("string", MaxPromptLength + 1, MaxPromptLength + 1)}

ImageIdsInputs ==
    {[kind |-> k, ids |-> << >>] : k \in {"missing", "string", "number", "array"}}
    \cup {[kind |-> "array", ids |-> <<a>>] : a \in ImageRefs}
    \cup {[kind |-> "array", ids |-> <<a, b>>] : a \in ImageRefs, b \in ImageRefs}
    \cup {[kind |-> "array", ids |-> [i \in 1..(MaxImageIds + 1) |-> ImageId(1)]]}

NoBody ==
    [kind |-> "none", sessionId |-> MissingId,
     imageIds |-> [kind |-> "missing", ids |-> << >>],
     prompt |-> Prompt("missing", 0, 0), imageId |-> MissingId, options |-> "default"]

AnalyzeBody(sessionId, imageIds, prompt) ==
    [kind |-> "object", sessionId |-> sessionId, imageIds |-> imageIds, prompt |-> prompt,
     imageId |-> MissingId, options |-> "default"]

AnalyzeBodies ==
    {NoBody} \cup
    {AnalyzeBody(s, i, p) : s \in SessionInputs, i \in ImageIdsInputs, p \in PromptInputs}

VideoBody(sessionId, prompt, imageId, options) ==
    [kind |-> "object", sessionId |-> sessionId,
     imageIds |-> [kind |-> "missing", ids |-> << >>],
     prompt |-> prompt, imageId |-> imageId, options |-> options]

VideoImageInputs == ImageRefs \cup {MissingId}
VideoOptionInputs == {"default", "bad model", "bad aspectRatio", "bad resolution"}

VideoBodies ==
    {NoBody} \cup
    {VideoBody(s, p, i, o) :
        s \in SessionInputs, p \in PromptInputs, i \in VideoImageInputs,
        o \in VideoOptionInputs}

File(name, mimetype, size) == [originalname |-> name, mimetype |-> mimetype, size |-> size]
SmallJpeg == File("small.jpg", "image/jpeg", 1024)
BigPng == File("big.png", "image/png", 62914560)
Bitmap == File("scan.bmp", "image/bmp", 1024)
HugeJpeg == File("huge.jpg", "image/jpeg", MulterFileSize + 1)
FileKinds == {SmallJpeg, BigPng, Bitmap, HugeJpeg}
ExactFile == File("exact.jpg", "image/jpeg", StatedFileSize)
OverFile == File("over.jpg", "image/jpeg", StatedFileSize + 1)
QuarterFile == File("quarter.jpg", "image/jpeg", StatedTotalSize \div 5)
QuarterOver == File("quarter1.jpg", "image/jpeg", (StatedTotalSize \div 5) + 1)

Repeat(file, n) == [i \in 1..n |-> file]

\* Every list of at most two files, full lists of five, and lists of six.
FileLists ==
    {<< >>}
    \cup {<<a>> : a \in FileKinds}
    \cup {<<a, b>> : a \in FileKinds, b \in FileKinds}
    \cup {Repeat(a, MaxUploadFiles) : a \in FileKinds}
    \cup {Repeat(a, MaxUploadFiles + 1) : a \in FileKinds}
    \cup {Repeat(SmallJpeg, MaxUploadFiles) \o <<a>> : a \in FileKinds}
    \cup {<<a>> \o Repeat(SmallJpeg, MaxUploadFiles) : a \in FileKinds}

\* The requests the transitions draw from: a well-formed request from each
\* session reference, and for each created session a request naming each
\* image, a request without a prompt, and uploads that pass (one file, and
\* five files of 5 MB), that carry an unsupported type (alone, and after a
\* supported file) and that carry a sixth file.
PlainImageIds == [kind |-> "missing", ids |-> << >>]
PlainPrompt == Prompt("string", 1, 1)
CreatedRefs == {SessionId(n) : n \in 1..MaxSessions}
StoredRefs == {ImageId(n) : n \in 1..MaxImages}

AnalyzeRequests ==
    {AnalyzeBody(s, PlainImageIds, PlainPrompt) : s \in SessionRefs}
    \cup {AnalyzeBody(s, [kind |-> "array", ids |-> <<i>>], PlainPrompt) :
            s \in CreatedRefs, i \in StoredRefs}
    \cup {AnalyzeBody(s, PlainImageIds, Prompt("missing", 0, 0)) : s \in CreatedRefs}

VideoRequests ==
    {VideoBody(s, PlainPrompt, MissingId, "default") : s \in SessionRefs}
    \cup {VideoBody(s, PlainPrompt, i, "default") : s \in CreatedRefs, i \in StoredRefs}
    \cup {VideoBody(s, Prompt("missing", 0, 0), MissingId, "default") : s \in CreatedRefs}

FullUpload == Repeat(ExactFile, MaxUploadFiles)
MixedUpload == <<SmallJpeg, Bitmap>>

UploadRequests ==
    (SessionRefs \X {<<SmallJpeg>>, <<Bitmap>>})
    \cup (CreatedRefs \X {Repeat(SmallJpeg, MaxUploadFiles + 1), FullUpload, MixedUpload})

\* ------------------------------------------------------------------- Init
InitStores ==
    /\ now = 0
    /\ advances = 0
    /\ sessions = << >>
    /\ nextSessionId = 1
    /\ window = << >>
    /\ imageStorage = << >>
    /\ nextImageId = 1
    /\ analysisRequests = << >>
    /\ nextRequestId = 1
    /\ videoOperations = << >>
    /\ pending = EmptyBag
    /\ steps = 0
    /\ resp = NoResp

\* The default deployment: neither RATE_LIMIT_REQUESTS nor RATE_LIMIT_TOKENS set.
Init ==
    /\ RATE_LIMITS = rateLimitsFromEnv(Unset, Unset)
    /\ InitStores

\* ---------------------------------------------------------------- actions
Tick ==
    \E d \in TickSteps :
        /\ advances < MaxAdvances
        /\ now' = now + d
        /\ advances' = advances + 1
        /\ resp' = NoResp
        /\ UNCHANGED <<RATE_LIMITS, sessions, nextSessionId, window, appVars>>

CreateSession ==
    \E d \in ClockSkew :
        /\ nextSessionId = 1
        /\ CanAdvance(d)
        /\ LET sessionId == SessionId(nextSessionId)
               session == newSession(sessionId, now, d)
           IN  /\ sessions' = MapSet(sessions, sessionId, session)
               /\ window' = MapSet(window, sessionId, NewWindow)
               /\ resp' = [op |-> "createSession", sessionId |-> sessionId,
                           session |-> session]
        /\ nextSessionId' = nextSessionId + 1
        /\ now' = now + d
        /\ advances' = Advanced(d)
        /\ UNCHANGED <<RATE_LIMITS, appVars>>

CheckRateLimit ==
    \E sessionId \in LimiterRefs, type \in {"requests", "tokens"}, d \in ClockSkew :
      \E amount \in Amounts(type) :
        /\ CanAdvance(d)
        /\ sessionId \in DOMAIN window =>
              window[sessionId].calls < RATE_LIMITS.REQUESTS_PER_MINUTE + MaxExtraCalls
        /\ LET r == checkRateLimit(sessions, sessionId, type, amount, now, d)
           IN  /\ sessions' = r.store
               /\ window' = IF r.found
                            THEN MapSet(window, sessionId,
                                    windowAfter(window[sessionId],
                                                sessions[sessionId].rateLimits,
                                                r.store[sessionId].rateLimits,
                                                type, r.allowed))
                            ELSE window
               /\ resp' = [op |-> "checkRateLimit", sessionId |-> sessionId,
                           type |-> type, amount |-> amount, at |-> now,
                           before |-> IF r.found THEN sessions[sessionId].rateLimits
                                      ELSE Null,
                           allowed |-> r.allowed, found |-> r.found]
        /\ now' = now + d
        /\ advances' = Advanced(d)
        /\ UNCHANGED <<RATE_LIMITS, nextSessionId, appVars>>

DeleteSession ==
    \E sessionId \in LimiterRefs :
        /\ sessions' = MapDelete(sessions, {sessionId})
        /\ window' = MapDelete(window, {sessionId})
        /\ resp' = [op |-> "deleteSession", sessionId |-> sessionId,
                    existed |-> sessionId \in DOMAIN sessions]
        /\ UNCHANGED <<RATE_LIMITS, now, advances, nextSessionId, appVars>>

CleanupExpiredSessions ==
    LET gone == expiredSessions(sessions, now)
    IN  /\ sessions' = MapDelete(sessions, gone)
        /\ window' = MapDelete(window, gone)
        /\ resp' = [op |-> "cleanupExpiredSessions", removed |-> gone,
                    count |-> Cardinality(gone)]
        /\ UNCHANGED <<RATE_LIMITS, now, advances, nextSessionId, appVars>>

NextSession ==
    \/ Tick
    \/ CreateSession
    \/ CheckRateLimit
    \/ DeleteSession
    \/ CleanupExpiredSessions

SpecSession == Init /\ [][NextSession]_vars

\* ------------------------------------------------------------- HTTP actions
\* A deployment with RATE_LIMIT_REQUESTS set and RATE_LIMIT_TOKENS unset.
InitHttp ==
    /\ RATE_LIMITS = rateLimitsFromEnv(<<EnvRateLimitRequests>>, Unset)
    /\ InitStores

\* The last response sent: which endpoint answered, and what.
Answer(op, response) ==
    [op |-> op, status |-> response.status, message |-> response.message]

gateWindow(sessionId, outcome) ==
    IF outcome.gate = "none" \/ sessionId \notin DOMAIN window THEN window
    ELSE MapSet(window, sessionId,
                windowAfter(window[sessionId], sessions[sessionId].rateLimits,
                            outcome.sessions[sessionId].rateLimits,
                            "requests", outcome.gate = "allowed"))

\* Time passing between requests: just over the age at which a session
\* counts as expired (and so past every open rate-limit window).
WaitSteps == {EXPIRY_TIME + 1}

WaitFor(d) ==
    /\ steps < MaxSteps
    /\ steps' = steps + 1
    /\ now' = now + d
    /\ resp' = NoResp
    /\ UNCHANGED <<RATE_LIMITS, advances, sessions, nextSessionId, window, imageStorage,
                   nextImageId, analysisRequests, nextRequestId, videoOperations,
                   pending>>

Wait == \E d \in WaitSteps : WaitFor(d)

\* A wait of one minute: the windows of every session end, no session
\* expires.
WaitMinute == WaitFor(MsPerMinute)

\* POST /api/v1/session (lines 392-417)
PostSession ==
    \E d \in ClockSkew :
        /\ steps < MaxSteps
        /\ nextSessionId <= MaxSessions
        /\ CanAdvance(d)
        /\ LET sessionId == SessionId(nextSessionId)
               session == newSession(sessionId, now, d)
           IN  /\ sessions' = MapSet(sessions, sessionId, session)
               /\ window' = MapSet(window, sessionId, NewWindow)
               /\ resp' = Answer("POST /session", Created201)
        /\ nextSessionId' = nextSessionId + 1
        /\ now' = now + d
        /\ advances' = Advanced(d)
        /\ steps' = steps + 1
        /\ UNCHANGED <<RATE_LIMITS, imageStorage, nextImageId, analysisRequests,
                       nextRequestId, videoOperations, pending>>

\* POST /api/v1/images (lines 440-627)
PostImagesOf(sessionId, files) ==
    LET response == uploadImages(sessionId, files)
        accepted == response.status = 201
    IN  /\ steps < MaxSteps
        /\ accepted => nextImageId <= MaxImages
        /\ imageStorage' =
              IF accepted
              THEN MapMerge(imageStorage, storedImages(sessionId, files, nextImageId))
              ELSE imageStorage
        /\ nextImageId' = IF accepted THEN nextImageId + Len(files) ELSE nextImageId
        /\ resp' = Answer("POST /images", response)
        /\ steps' = steps + 1
        /\ UNCHANGED <<RATE_LIMITS, now, advances, sessions, nextSessionId, window,
                       analysisRequests, nextRequestId, videoOperations, pending>>

PostImages == \E request \in UploadRequests : PostImagesOf(request[1], request[2])

\* POST /api/v1/analyze, from the request to the await (lines 630-784)
PostAnalyze ==
    \E body \in AnalyzeRequests, d \in ClockSkew :
        /\ steps < MaxSteps
        /\ CanAdvance(d)
        /\ LET outcome == analyze(body, d)
           IN  /\ sessions' = outcome.sessions
               /\ window' = gateWindow(body.sessionId, outcome)
               /\ pending' = pending (+) outcome.calls
               /\ resp' = Answer("POST /analyze", outcome.response)
        /\ now' = now + d
        /\ advances' = Advanced(d)
        /\ steps' = steps + 1
        /\ UNCHANGED <<RATE_LIMITS, nextSessionId, imageStorage, nextImageId,
                       analysisRequests, nextRequestId, videoOperations>>

\* What geminiAnalyze resolves to (gemini.ts lines 113-126).
GeminiResults ==
    {[content |-> "text", format |-> "markdown", generatedImages |-> g] :
        g \in {<< >>, <<"png">>}}

\* A record stored before its result is known.
analysisRecordPending(call, result, n, t) ==
    [id |-> AnalysisId(n), requestId |-> RequestId(n), sessionId |-> call.sessionId,
     imageIds |-> call.imageIds, prompt |-> call.prompt, status |-> "processing",
     createdAt |-> t, result |-> Null]

\* A record whose requestId is not fresh.
analysisRecordSameKey(call, result, n, t) ==
    [id |-> AnalysisId(n), requestId |-> RequestId(1), sessionId |-> call.sessionId,
     imageIds |-> call.imageIds, prompt |-> call.prompt, status |-> "completed",
     createdAt |-> t, result |-> [content |-> result.content, format |-> result.format]]

\* Lines 786-811: the record stored for a call that returned.
analysisRecord(call, result, n, t) ==
    [id |-> AnalysisId(n), requestId |-> RequestId(n), sessionId |-> call.sessionId,
     imageIds |-> call.imageIds, prompt |-> call.prompt, status |-> "completed",
     createdAt |-> t,
     result |-> IF Len(result.generatedImages) > 0
                THEN result
                ELSE [content |-> result.content, format |-> result.format]]

\* A success that looks the session up again before it stores the record.
AnalyzeReturnsRechecking ==
    \E call \in BagToSet(pending), result \in GeminiResults :
        /\ call.kind = "analyze"
        /\ IF call.sessionId \in DOMAIN sessions
           THEN LET record == analysisRecord(call, result, nextRequestId, now)
                IN  /\ analysisRequests' = MapSet(analysisRequests, record.requestId, record)
                    /\ nextRequestId' = nextRequestId + 1
                    /\ resp' = Answer("POST /analyze", Response(200, "", "completed"))
           ELSE /\ UNCHANGED <<analysisRequests, nextRequestId>>
                /\ resp' = Answer("POST /analyze",
                                  ValidationError("Session not found or invalid"))
        /\ pending' = pending (-) SetToBag({call})
        /\ UNCHANGED <<RATE_LIMITS, now, advances, sessions, nextSessionId, window, steps,
                       imageStorage, nextImageId, videoOperations>>

\* A success that charges the reported tokens to the session's token counter.
AnalyzeReturnsCharging ==
    \E call \in BagToSet(pending), result \in GeminiResults, tokensUsed \in TokenAmounts :
        /\ call.kind = "analyze"
        /\ LET record == analysisRecord(call, result, nextRequestId, now)
           IN  /\ analysisRequests' = MapSet(analysisRequests, record.requestId, record)
               /\ resp' = Answer("POST /analyze", Response(200, "", "completed"))
        /\ sessions' = checkRateLimit(sessions, call.sessionId, "tokens", tokensUsed,
                                      now, 0).store
        /\ nextRequestId' = nextRequestId + 1
        /\ pending' = pending (-) SetToBag({call})
        /\ UNCHANGED <<RATE_LIMITS, now, advances, nextSessionId, window, steps,
                       imageStorage, nextImageId, videoOperations>>

\* geminiAnalyze resolves: lines 786-836. tokensUsed is the totalTokenCount
\* the collaborator reports (gemini.ts line 110); the handler only logs it
\* (line 819).
AnalyzeReturns ==
    \E call \in BagToSet(pending), result \in GeminiResults, tokensUsed \in TokenAmounts :
        /\ call.kind = "analyze"
        /\ LET record == analysisRecord(call, result, nextRequestId, now)
           IN  /\ analysisRequests' = MapSet(analysisRequests, record.requestId, record)
               /\ resp' = Answer("POST /analyze", Response(200, "", "completed"))
        /\ nextRequestId' = nextRequestId + 1
        /\ pending' = pending (-) SetToBag({call})
        /\ UNCHANGED <<RATE_LIMITS, now, advances, sessions, nextSessionId, window, steps,
                       imageStorage, nextImageId, videoOperations>>

\* A failure that leaves a record of the failed request behind.
AnalyzeThrowsStoring ==
    \E call \in BagToSet(pending) :
        /\ call.kind = "analyze"
        /\ pending' = pending (-) SetToBag({call})
        /\ analysisRequests' =
              MapSet(analysisRequests, RequestId(nextRequestId),
                     analysisRecordPending(call, Null, nextRequestId, now))
        /\ nextRequestId' = nextRequestId + 1
        /\ resp' = Answer("POST /analyze",
                        InternalError("Failed to process analysis request"))
        /\ UNCHANGED <<RATE_LIMITS, now, advances, sessions, nextSessionId, window, steps,
                       imageStorage, nextImageId, videoOperations>>

\* geminiAnalyze rejects: lines 838-849
AnalyzeThrows ==
    \E call \in BagToSet(pending) :
        /\ call.kind = "analyze"
        /\ pending' = pending (-) SetToBag({call})
        /\ resp' = Answer("POST /analyze",
                        InternalError("Failed to process analysis request"))
        /\ UNCHANGED <<RATE_LIMITS, now, advances, sessions, nextSessionId, window, steps,
                       imageStorage, nextImageId, analysisRequests, nextRequestId,
                       videoOperations>>

\* POST /api/v1/videos/generate, from the request to the await (lines 1167-1328)
PostVideo ==
    \E body \in VideoRequests, d \in ClockSkew :
        /\ steps < MaxSteps
        /\ CanAdvance(d)
        /\ LET outcome == generateVideo(body, d)
           IN  /\ sessions' = outcome.sessions
               /\ window' = gateWindow(body.sessionId, outcome)
               /\ pending' = pending (+) outcome.calls
               /\ resp' = Answer("POST /videos/generate", outcome.response)
        /\ now' = now + d
        /\ advances' = Advanced(d)
        /\ steps' = steps + 1
        /\ UNCHANGED <<RATE_LIMITS, nextSessionId, imageStorage, nextImageId,
                       analysisRequests, nextRequestId, videoOperations>>

\* startVideoGeneration resolves: lines 1330-1347. Every result carries the
\* operation object (veo3.ts lines 117-189), kept under the name the
\* collaborator gave it.
VideoReturns ==
    \E call \in BagToSet(pending) :
        /\ call.kind = "video"
        /\ videoOperations' = MapSet(videoOperations, OperationId(1), "operation")
        /\ pending' = pending (-) SetToBag({call})
        /\ resp' = Answer("POST /videos/generate",
                        Response(202, "", "Video generation started"))
        /\ UNCHANGED <<RATE_LIMITS, now, advances, sessions, nextSessionId, window, steps,
                       imageStorage, nextImageId, analysisRequests, nextRequestId>>

\* startVideoGeneration rejects: lines 1349-1360
VideoThrows ==
    \E call \in BagToSet(pending) :
        /\ call.kind = "video"
        /\ pending' = pending (-) SetToBag({call})
        /\ resp' = Answer("POST /videos/generate",
                        InternalError("Failed to start video generation"))
        /\ UNCHANGED <<RATE_LIMITS, now, advances, sessions, nextSessionId, window, steps,
                       imageStorage, nextImageId, analysisRequests, nextRequestId,
                       videoOperations>>

NextHttp ==
    \/ Wait
    \/ PostSession
    \/ PostImages
    \/ PostAnalyze
    \/ AnalyzeReturns
    \/ AnalyzeThrows
    \/ PostVideo
    \/ VideoReturns
    \/ VideoThrows

SpecHttp == InitHttp /\ [][NextHttp]_vars

\* ------------------------------------------------------- read-only routes
NotFound(message) == Response(404, "not_found", message)

\* The 200 answer of GET /api/v1/analyze/:requestId (lines 888-895).
AnalysisResult(record) ==
    [status |-> 200, error |-> "", message |-> "completed",
     id |-> record.id, requestId |-> record.requestId, analysisStatus |-> record.status,
     content |-> record.result.content, format |-> record.result.format]

\* The 202 answer (lines 896-905).
AnalysisProgress(record) ==
    [status |-> 202, error |-> "", message |-> "in progress",
     requestId |-> record.requestId, analysisStatus |-> record.status]

\* GET /api/v1/analyze/:requestId (lines 853-919) on a store of records.
getAnalysisIn(store, requestId) ==
    IF ~isUuid(requestId)
    THEN ValidationError("requestId must be a valid UUID format")
    ELSE IF requestId \notin DOMAIN store
    THEN NotFound("Analysis request not found")
    ELSE IF store[requestId].status = "completed" /\ store[requestId].result # Null
    THEN AnalysisResult(store[requestId])
    ELSE AnalysisProgress(store[requestId])

getAnalysis(requestId) == getAnalysisIn(analysisRequests, requestId)

\* The request ids a client asks for: those it was given, a UUID that was
\* never issued, and a string that is no UUID.
RequestRefs == (DOMAIN analysisRequests) \cup {UnknownUuid, MalformedId}

GetAnalysis ==
    \E requestId \in RequestRefs :
        /\ resp' = Answer("GET /analyze", getAnalysis(requestId))
        /\ UNCHANGED <<RATE_LIMITS, now, advances, sessions, nextSessionId, window>>
        /\ UNCHANGED appVars

NextApi ==
    \/ Wait
    \/ PostSession
    \/ PostImages
    \/ PostAnalyze
    \/ AnalyzeReturns
    \/ AnalyzeThrows
    \/ PostVideo
    \/ VideoReturns
    \/ VideoThrows
    \/ GetAnalysis

SpecApi == InitHttp /\ [][NextApi]_vars

\* ---------------------------------------------------------------- history
\* The limit of the query string: absent, or a text. parseInt reads the
\* leading integer of a text ("2" and "2.9" give 2) and gives NaN for a text
\* without one.
LimitText(kind, n) == [kind |-> kind, n |-> n]
parseInt(text) ==
    IF text.kind \in {"digits", "decimal"}
    THEN [isNaN |-> FALSE, n |-> text.n]
    ELSE [isNaN |-> TRUE, n |-> 0]

\* Lines 951-970: the limit the route works with, or the error it answers.
limitError(limit) ==
    IF limit.kind = "missing" THEN "none"
    ELSE IF parseInt(limit).isNaN THEN "limit parameter must be a valid number"
    ELSE IF parseInt(limit).n < 1 \/ parseInt(limit).n > MaxHistoryLimit
    THEN "limit parameter must be between 1 and 50"
    ELSE "none"

parsedLimit(limit) ==
    IF limit.kind = "missing" THEN DefaultHistoryLimit ELSE parseInt(limit).n

\* Lines 973-979: the records of the session, in the insertion order of the
\* Map (request ids are issued in the order of nextRequestId).
RECURSIVE entriesFrom(_, _, _)
entriesFrom(store, sessionId, n) ==
    IF n >= nextRequestId THEN << >>
    ELSE IF RequestId(n) \in DOMAIN store /\ store[RequestId(n)].sessionId = sessionId
    THEN <<store[RequestId(n)]>> \o entriesFrom(store, sessionId, n + 1)
    ELSE entriesFrom(store, sessionId, n + 1)

sessionAnalyses(sessionId) == entriesFrom(analysisRequests, sessionId, 1)

\* A sort that keeps the order of insertion.
insertLast(sorted, record) == Append(sorted, record)

\* Line 982: Array.prototype.sort is stable, and the comparator
\* b.createdAt - a.createdAt puts a record behind every record that is as
\* new or newer.
RECURSIVE insertNewestFirst(_, _)
insertNewestFirst(sorted, record) ==
    IF sorted = << >> THEN <<record>>
    ELSE IF Head(sorted).createdAt >= record.createdAt
    THEN <<Head(sorted)>> \o insertNewestFirst(Tail(sorted), record)
    ELSE <<record>> \o sorted

RECURSIVE sortNewestFirst(_)
sortNewestFirst(records) ==
    IF records = << >> THEN << >>
    ELSE insertNewestFirst(sortNewestFirst(SubSeq(records, 1, Len(records) - 1)),
                           records[Len(records)])

\* Lines 990-996: an item of the answer.
historyItem(record) ==
    [id |-> record.id, requestId |-> record.requestId, status |-> record.status,
     content |-> IF record.result = Null THEN "" ELSE record.result.content,
     format |-> IF record.result = Null THEN "plaintext" ELSE record.result.format]

\* GET /api/v1/session/:sessionId/history (lines 922-1027)
history(sessionId, limit) ==
    IF ~isUuid(sessionId) THEN ValidationError("sessionId must be a valid UUID format")
    ELSE IF getSession(sessionId) = Null THEN NotFound("Session not found")
    ELSE IF limitError(limit) # "none" THEN ValidationError(limitError(limit))
    ELSE LET sorted == sortNewestFirst(sessionAnalyses(sessionId))
             totalCount == Len(sorted)
             page == SubSeq(sorted, 1, Min(parsedLimit(limit), totalCount))
         IN  [status |-> 200, error |-> "", message |-> "history",
              sessionId |-> sessionId,
              analyses |-> [i \in 1..Len(page) |-> historyItem(page[i])],
              totalCount |-> totalCount,
              hasMore |-> totalCount > parsedLimit(limit)]

MissingLimit == [kind |-> "missing", n |-> 0]
LimitInputs ==
    {MissingLimit, LimitText("letters", 0), LimitText("decimal", 2)}
    \cup {LimitText("digits", n) :
            n \in {-1, 0, 1, 2, DefaultHistoryLimit, MaxHistoryLimit, MaxHistoryLimit + 1}}

\* The history requests the transitions draw from.
HistoryRequests == SessionRefs \X {MissingLimit, LimitText("digits", 1), LimitText("digits", 0)}

GetHistory ==
    \E request \in HistoryRequests :
        /\ resp' = Answer("GET /history", history(request[1], request[2]))
        /\ UNCHANGED <<RATE_LIMITS, now, advances, sessions, nextSessionId, window>>
        /\ UNCHANGED appVars

\* ----------------------------------------------------------------- export
\* (req.query.format || 'json').toLowerCase() (line 1038)
formatOf(format) ==
    IF format = "" THEN "json"
    ELSE IF format = "JSON" THEN "json"
    ELSE format

supportedFormats == {"json", "markdown", "txt"}

contentTypeOf(format) ==
    IF format = "json" THEN "application/json"
    ELSE IF format = "markdown" THEN "text/markdown"
    ELSE "text/plain"

\* Lines 1075-1127: the success answer in the requested format.
Exported(record, format) ==
    [status |-> 200, error |-> "", message |-> "exported",
     contentType |-> contentTypeOf(format),
     id |-> record.id, requestId |-> record.requestId, analysisStatus |-> record.status,
     content |-> record.result.content, format |-> record.result.format]

\* An export that does not look at the status of the record.
exportAnyRecord(store, requestId, format) ==
    IF ~isUuid(requestId)
    THEN ValidationError("requestId must be a valid UUID format")
    ELSE IF formatOf(format) \notin supportedFormats
    THEN ValidationError("Format is not supported")
    ELSE IF requestId \notin DOMAIN store
    THEN NotFound("Analysis request not found")
    ELSE [status |-> 200, error |-> "", message |-> "exported",
          contentType |-> contentTypeOf(formatOf(format)),
          id |-> store[requestId].id, requestId |-> requestId,
          analysisStatus |-> store[requestId].status,
          content |-> "", format |-> "plaintext"]

\* GET /api/v1/export/:requestId (lines 1029-1147) on a store of records.
exportIn(store, requestId, format) ==
    IF ~isUuid(requestId)
    THEN ValidationError("requestId must be a valid UUID format")
    ELSE IF formatOf(format) \notin supportedFormats
    THEN ValidationError("Format is not supported")
    ELSE IF requestId \notin DOMAIN store
    THEN NotFound("Analysis request not found")
    ELSE IF store[requestId].status # "completed" \/ store[requestId].result = Null
    THEN NotFound("Analysis result not found or not completed")
    ELSE Exported(store[requestId], formatOf(format))

FormatInputs == {"", "json", "JSON", "markdown", "txt", "pdf"}

\* The export requests the transitions draw from.
ExportRequests ==
    (((DOMAIN analysisRequests) \cup {UnknownUuid}) \X {""})
    \cup {<<UnknownUuid, "pdf">>}

GetExport ==
    \E request \in ExportRequests :
        /\ resp' = Answer("GET /export", exportIn(analysisRequests, request[1], request[2]))
        /\ UNCHANGED <<RATE_LIMITS, now, advances, sessions, nextSessionId, window>>
        /\ UNCHANGED appVars

NextRead ==
    \/ WaitMinute
    \/ PostSession
    \/ PostImages
    \/ PostAnalyze
    \/ AnalyzeReturns
    \/ AnalyzeThrows
    \/ PostVideo
    \/ VideoReturns
    \/ VideoThrows
    \/ GetHistory
    \/ GetExport

SpecRead == InitHttp /\ [][NextRead]_vars

\* ------------------------------------------------------------ abbreviations
Requests(id) == sessions[id].rateLimits.requestsPerMinute
Tokens(id) == sessions[id].rateLimits.tokensPerMinute
Checked == resp.op = "checkRateLimit" /\ resp.found
\* The counter the last checkRateLimit call was about, after the call.
CheckedLimit == sessions[resp.sessionId].rateLimits[limitKey(resp.type)]

\* ------------------------------------------------------------------ claims

\* C1: within one rate window the k-th checkRateLimit(session, 'requests', 1)
\* call is allowed exactly when k <= limit; the calls beyond the limit are
\* refused and leave requestsPerMinute.remaining where it was, at 0.
C1_WindowBudget ==
    /\ \A id \in DOMAIN sessions :
          /\ window[id].admitted = Min(window[id].calls, Requests(id).limit)
          /\ Requests(id).remaining = Requests(id).limit - window[id].admitted
    /\ (Checked /\ resp.type = "requests") =>
          /\ resp.allowed <=> window[resp.sessionId].calls <= CheckedLimit.limit
          /\ ~resp.allowed => /\ CheckedLimit.remaining = 0
                              /\ CheckedLimit = resp.before.requestsPerMinute

\* The (limit+1)-th call of a window has just been refused.
C1_Witness ==
    /\ Checked /\ resp.type = "requests" /\ ~resp.allowed
    /\ window[resp.sessionId].calls = DefaultRequestsPerMinute + 1
    /\ window[resp.sessionId].admitted = DefaultRequestsPerMinute

\* C3: a check made at or after the counter's resetAt first restores
\* remaining to limit, whatever it was; an amount <= limit is then allowed
\* and leaves remaining = limit - amount, with a resetAt later than now.
C3_ResetOnExpiry ==
    (Checked /\ resp.at >= resp.before[limitKey(resp.type)].resetAt) =>
        /\ CheckedLimit.resetAt > now
        /\ resp.amount <= CheckedLimit.limit =>
              /\ resp.allowed
              /\ CheckedLimit.remaining = CheckedLimit.limit - resp.amount

\* A depleted requests counter was checked at the instant of its resetAt.
C3_Witness ==
    /\ Checked /\ resp.type = "requests" /\ resp.allowed
    /\ resp.before.requestsPerMinute.remaining = 0
    /\ resp.at = resp.before.requestsPerMinute.resetAt

\* C4: both counters of every session stay within 0 .. limit.
C4_RemainingInRange ==
    \A id \in DOMAIN sessions :
        /\ 0 <= Requests(id).remaining /\ Requests(id).remaining <= Requests(id).limit
        /\ 0 <= Tokens(id).remaining /\ Tokens(id).remaining <= Tokens(id).limit

\* Both budgets of a session are spent.
C4_Witness ==
    \E id \in DOMAIN sessions : Requests(id).remaining = 0 /\ Tokens(id).remaining = 0

Created == resp.op = "createSession"
CreatedLimits == resp.session.rateLimits
FullDefaults(rateLimits) ==
    /\ rateLimits.requestsPerMinute.limit = DefaultRequestsPerMinute
    /\ rateLimits.requestsPerMinute.remaining = DefaultRequestsPerMinute
    /\ rateLimits.tokensPerMinute.limit = DefaultTokensPerMinute
    /\ rateLimits.tokensPerMinute.remaining = DefaultTokensPerMinute
    /\ rateLimits.requestsPerMinute.resetAt = rateLimits.tokensPerMinute.resetAt

\* C5 as stated: right after createSession both counters are full (10 and
\* 250000), share one resetAt, and resetAt is later than createdAt by
\* strictly less than 60 seconds.
C5_Original ==
    Created =>
        /\ resp.session = sessions[resp.sessionId]
        /\ FullDefaults(CreatedLimits)
        /\ CreatedLimits.requestsPerMinute.resetAt > resp.session.createdAt
        /\ CreatedLimits.requestsPerMinute.resetAt - resp.session.createdAt < MsPerMinute

\* C5 amended: right after createSession both counters are full (10 and
\* 250000) and share one resetAt; resetAt is a minute boundary strictly
\* later than createdAt and at most 60 seconds later than the clock reading
\* it was computed from, so a session created on a minute boundary gets a
\* resetAt a full 60 seconds after createdAt.
C5_CreatedFull ==
    Created =>
        /\ resp.session = sessions[resp.sessionId]
        /\ FullDefaults(CreatedLimits)
        /\ CreatedLimits.requestsPerMinute.resetAt % MsPerMinute = 0
        /\ CreatedLimits.requestsPerMinute.resetAt > resp.session.createdAt
        /\ CreatedLimits.requestsPerMinute.resetAt > now
        /\ CreatedLimits.requestsPerMinute.resetAt - now <= MsPerMinute
        /\ resp.session.createdAt % MsPerMinute = 0 =>
              CreatedLimits.requestsPerMinute.resetAt - resp.session.createdAt >= MsPerMinute

\* A session has just been created on a minute boundary, later than the start.
C5_Witness ==
    /\ Created
    /\ resp.session.createdAt > 0
    /\ resp.session.createdAt % MsPerMinute = 0
    /\ CreatedLimits.requestsPerMinute.resetAt - resp.session.createdAt = MsPerMinute

\* ------------------------------------------------------ the HTTP interface
InFlight(id) == {call \in BagToSet(pending) : call.sessionId = id}
Answered(op, message) == resp.op = op /\ resp.message = message

\* C2: however rate-checked requests (POST /analyze, POST /videos/generate)
\* for one session interleave, the requests that passed the gate in the
\* session's current window never outnumber the requests-per-minute limit,
\* and each of them took its own unit of the budget.
C2_GateNeverOverspent ==
    \A id \in DOMAIN sessions :
        /\ window[id].admitted <= Requests(id).limit
        /\ window[id].admitted = Requests(id).limit - Requests(id).remaining

\* While an analyze request of a session is still awaiting the collaborator,
\* a video request of the same session has been refused at the gate.
C2_Witness ==
    /\ resp.op = "POST /videos/generate" /\ resp.status = 429
    /\ \E id \in DOMAIN sessions :
          /\ \E call \in InFlight(id) : call.kind = "analyze"
          /\ window[id].admitted = Requests(id).limit
          /\ window[id].calls > window[id].admitted

\* C6: a session older than one hour is not found by the session-scoped
\* operations (get, rate-limit check, image upload, analyze), and its
\* counters are no longer changed.
C6_ExpiredIsNotFound ==
    \A id \in DOMAIN sessions :
        Expired(sessions[id], now) =>
            /\ getSession(id) = Null
            /\ ~checkRateLimit(sessions, id, "requests", 1, now, 0).found
            /\ checkRateLimit(sessions, id, "requests", 1, now, 0).store = sessions
            /\ uploadImages(id, <<SmallJpeg>>).status = 400
            /\ analyze(AnalyzeBody(id, PlainImageIds, PlainPrompt), 0).response.status = 400
            /\ analyze(AnalyzeBody(id, PlainImageIds, PlainPrompt), 0).sessions = sessions

ForeignTo(sessionId) ==
    {imageId \in DOMAIN imageStorage : imageStorage[imageId].sessionId # sessionId}
NamesForeign(imageIds, sessionId) ==
    /\ imageIds.kind = "array"
    /\ \E i \in 1..Len(imageIds.ids) : imageIds.ids[i] \in ForeignTo(sessionId)
OwnsAll(sessionId, ids) ==
    \A i \in 1..Len(ids) :
        /\ ids[i] \in DOMAIN imageStorage
        /\ imageStorage[ids[i]].sessionId = sessionId
\* No collaborator call in flight and no stored record joins a session with
\* an image of another session.
NothingLeaked ==
    /\ \A call \in BagToSet(pending) : OwnsAll(call.sessionId, call.imageIds)
    /\ \A requestId \in DOMAIN analysisRequests :
          OwnsAll(analysisRequests[requestId].sessionId,
                  analysisRequests[requestId].imageIds)
IsValidationError(response) ==
    response.status = 400 /\ response.error = "validation_error"

\* C7 as stated: an analyze or video-generate request naming an image that
\* is stored but owned by another session is rejected with a validation
\* error; the collaborator is never called with that image and no record
\* is stored for it.
C7_Original ==
    /\ NothingLeaked
    /\ \A s \in SessionInputs, i \in ImageIdsInputs :
          NamesForeign(i, s) =>
              \A p \in PromptInputs, d \in ClockSkew :
                  /\ IsValidationError(analyze(AnalyzeBody(s, i, p), d).response)
                  /\ analyze(AnalyzeBody(s, i, p), d).calls = EmptyBag
    /\ \A s \in SessionInputs, i \in ImageRefs :
          i \in ForeignTo(s) =>
              \A p \in PromptInputs, o \in VideoOptionInputs, d \in ClockSkew :
                  /\ IsValidationError(generateVideo(VideoBody(s, p, i, o), d).response)
                  /\ generateVideo(VideoBody(s, p, i, o), d).calls = EmptyBag

Rejected(outcome) ==
    /\ outcome.calls = EmptyBag
    /\ IF outcome.gate = "refused"
       THEN outcome.response.status = 429 /\ outcome.response.error = "rate_limit_exceeded"
       ELSE IsValidationError(outcome.response)

\* C7 amended: an analyze or video-generate request naming an image that is
\* stored but owned by another session is rejected: with 429
\* rate_limit_exceeded when the requesting session's request budget is
\* spent, with a validation error otherwise; either way the collaborator is
\* never called with that image and no record is stored for it.
C7_ForeignImageRejected ==
    /\ NothingLeaked
    /\ \A s \in SessionInputs, i \in ImageIdsInputs :
          NamesForeign(i, s) =>
              \A p \in PromptInputs, d \in ClockSkew :
                  Rejected(analyze(AnalyzeBody(s, i, p), d))
    /\ \A s \in SessionInputs, i \in ImageRefs :
          i \in ForeignTo(s) =>
              \A p \in PromptInputs, o \in VideoOptionInputs, d \in ClockSkew :
                  Rejected(generateVideo(VideoBody(s, p, i, o), d))

\* An analyze request has just been refused for naming another session's
\* image; nothing is in flight and nothing was recorded.
C7_Witness ==
    /\ Answered("POST /analyze", "Image does not belong to this session")
    /\ \E s \in DOMAIN sessions : ForeignTo(s) # {} /\ window[s].admitted > 0
    /\ pending = EmptyBag
    /\ analysisRequests = << >>

Depleted(id) == Requests(id).remaining = 0 /\ now < Requests(id).resetAt
Live(id) == ~Expired(sessions[id], now)

\* C8: while a live session's requests counter is at 0 inside its window, every
\* analyze request for it, whatever its imageIds and prompt, is answered 429
\* rate_limit_exceeded with retryAfter and the session's limits; no
\* collaborator call is issued, so no record follows, and the session store
\* is left as it was.
C8_DepletedAnswers429 ==
    \A id \in DOMAIN sessions :
        (Live(id) /\ Depleted(id)) =>
            \A i \in ImageIdsInputs, p \in PromptInputs, d \in ClockSkew :
                LET outcome == analyze(AnalyzeBody(id, i, p), d)
                IN  /\ outcome.response = RateLimitExceeded(sessions[id].rateLimits)
                    /\ outcome.response.status = 429
                    /\ outcome.response.retryAfter = RetryAfter
                    /\ outcome.calls = EmptyBag
                    /\ outcome.sessions = sessions

\* An analyze request has just been answered 429 and the session it was for
\* is still depleted inside its window.
C8_Witness ==
    /\ Answered("POST /analyze", "Rate limit exceeded")
    /\ \E id \in DOMAIN sessions :
          Live(id) /\ Depleted(id) /\ window[id].calls > window[id].admitted

UnknownRefs == {id \in SessionRefs : id \notin DOMAIN sessions}

\* C9: an analyze request naming a UUID-shaped sessionId that is not in the
\* store is answered 400 validation_error, never 429, and reaches neither
\* the gate nor the collaborator; checkRateLimit on such an id returns
\* allowed = false with no session and leaves the store as it was.
C9_UnknownSessionIsInvalid ==
    \A id \in UnknownRefs :
        /\ \A i \in ImageIdsInputs, p \in PromptInputs, d \in ClockSkew :
              LET outcome == analyze(AnalyzeBody(id, i, p), d)
              IN  /\ outcome.response = ValidationError("Session not found or invalid")
                  /\ outcome.response.status # 429
                  /\ outcome.gate = "none"
                  /\ outcome.calls = EmptyBag
                  /\ outcome.sessions = sessions
        /\ \A type \in {"requests", "tokens"}, d \in ClockSkew :
              LET verdict == checkRateLimit(sessions, id, type, 1, now, d)
              IN  /\ ~verdict.allowed
                  /\ ~verdict.found
                  /\ verdict.store = sessions

\* While a session exists, an analyze request naming another, unknown
\* session id has just been answered "Session not found or invalid".
C9_Witness ==
    /\ Answered("POST /analyze", "Session not found or invalid")
    /\ resp.status = 400
    /\ sessions # << >>
    /\ UnknownRefs # {}

\* The error the checks of POST /images give when applied in the stated
\* order: session, non-empty, at most five files, MIME types, total size,
\* per-file size.
statedUploadCheck(sessionId, files) ==
    IF sessionError(sessionId) # "none" THEN "session"
    ELSE IF Len(files) = 0 THEN "empty"
    ELSE IF Len(files) > MaxUploadFiles THEN "count"
    ELSE IF \E i \in 1..Len(files) : files[i].mimetype \notin allowedMimeTypes THEN "type"
    ELSE IF totalSize(files) > maxTotalSize THEN "total"
    ELSE IF \E i \in 1..Len(files) : files[i].size > maxFileSize THEN "file"
    ELSE "none"

\* The check a response of POST /images reports.
reportedUploadCheck(response) ==
    IF response.status = 201 THEN "none"
    ELSE IF response.message \in {"sessionId is required",
                                  "sessionId must be a valid UUID format",
                                  "Session not found or invalid"} THEN "session"
    ELSE IF response.message = "No files provided" THEN "empty"
    ELSE IF response.message = "Too many files uploaded. Maximum of 5 images allowed."
    THEN "count"
    ELSE IF response.message = "Unsupported file format" THEN "type"
    ELSE IF response.message = "Total upload size exceeds maximum allowed size of 100MB"
    THEN "total"
    ELSE IF response.message \in {"File exceeds maximum size limit of 100MB",
                                  "File exceeds maximum size limit of 100MB (named)"}
    THEN "file"
    ELSE "other"

\* C10: POST /images applies its checks in the order session exists, file
\* list non-empty, at most 5 files, every MIME type allowed, total size
\* within the cap, each file within the per-file cap, and answers with the
\* error of the earliest violated check.
C10_StatedCheckOrder ==
    sessions # << >> =>
        \A sessionId \in SessionInputs, files \in FileLists :
            reportedUploadCheck(uploadImages(sessionId, files))
                = statedUploadCheck(sessionId, files)

\* ------------------------------------------------- upload limits (C11-C14)
\* Lists of six files of an allowed type, of several sizes.
SixFileLists == {Repeat(a, MaxUploadFiles + 1) : a \in {SmallJpeg, BigPng, ExactFile, OverFile}}

LiveSessions == {id \in DOMAIN sessions : Live(id)}

CountError == ValidationError("Too many files uploaded. Maximum of 5 images allowed.")

\* C11: an upload of more than 5 files for a live session is answered 400
\* validation_error with the count message (maximum 5 images), whatever the
\* sizes of the files.
C11_SixFilesCountError ==
    \A id \in LiveSessions, files \in SixFileLists :
        uploadImages(id, files) = CountError

\* Uploads of at most five files of an allowed type with a file one byte
\* over 5 MB among them, small enough in total for the 20 MB cap.
OverFileLists == {<<OverFile>>, <<SmallJpeg, OverFile>>, <<OverFile, SmallJpeg, SmallJpeg>>}

\* C12: an upload with a file larger than 5,242,880 bytes is rejected with
\* the per-file size validation error, and a single file of exactly
\* 5,242,880 bytes is accepted.
C12_FiveMegabyteFileCap ==
    \A id \in LiveSessions :
        /\ uploadImages(id, <<ExactFile>>) = Created201
        /\ \A files \in OverFileLists :
              /\ IsValidationError(uploadImages(id, files))
              /\ reportedUploadCheck(uploadImages(id, files)) = "file"

\* Five files of 4,194,304 bytes sum to exactly 20,971,520 bytes; with one
\* of them a byte larger the sum is 20,971,521.
ExactTotalList == Repeat(QuarterFile, MaxUploadFiles)
OverTotalList == Repeat(QuarterFile, MaxUploadFiles - 1) \o <<QuarterOver>>

\* C13: an upload whose sizes sum to exactly 20,971,520 bytes is accepted,
\* and one whose sizes sum to one byte more is rejected with the
\* total-upload-size validation error.
C13_TwentyMegabyteTotalCap ==
    \A id \in LiveSessions :
        /\ totalSize(ExactTotalList) = StatedTotalSize
        /\ uploadImages(id, ExactTotalList) = Created201
        /\ totalSize(OverTotalList) = StatedTotalSize + 1
        /\ IsValidationError(uploadImages(id, OverTotalList))
        /\ reportedUploadCheck(uploadImages(id, OverTotalList)) = "total"

\* The images a step has added to the image store.
NewImages == {imageStorage'[k] : k \in (DOMAIN imageStorage') \ (DOMAIN imageStorage)}

NewImageIds == (DOMAIN imageStorage') \ (DOMAIN imageStorage)

\* The file an image was stored from.
FileOf(image) == File(image.originalName, image.mimeType, image.sizeBytes)

\* The step has stored every file of the request for the session, each under
\* an id of its own that was not in the store, and has left the images that
\* were in the store as they were.
StoredWhole(sessionId, files) ==
    /\ \A k \in DOMAIN imageStorage :
          k \in DOMAIN imageStorage' /\ imageStorage'[k] = imageStorage[k]
    /\ Cardinality(NewImageIds) = Len(files)
    /\ \A k \in NewImageIds :
          imageStorage'[k].id = k /\ imageStorage'[k].sessionId = sessionId
    /\ \A i \in 1..Len(files) :
          Cardinality({k \in NewImageIds : FileOf(imageStorage'[k]) = files[i]})
              = Cardinality({j \in 1..Len(files) : files[j] = files[i]})

\* C15: image upload is all-or-nothing: every step either leaves the image
\* store unchanged and is not an accepted upload, or is an accepted upload
\* whose files all passed validation and are all stored, each under a fresh
\* id of its own with the sessionId of the request.
C15_UploadAllOrNothing ==
    [][\/ /\ imageStorage' = imageStorage
          /\ ~(resp'.op = "POST /images" /\ resp'.status = 201)
       \/ \E request \in UploadRequests :
             /\ PostImagesOf(request[1], request[2])
             /\ uploadImages(request[1], request[2]) = Created201
             /\ multerStage(request[2]) = "none"
             /\ uploadError(request[1], request[2]) = "none"
             /\ StoredWhole(request[1], request[2])]_vars

\* A batch of five is stored whole, and a later upload was rejected and has
\* left exactly that batch in the store.
C15_Witness ==
    /\ resp = Answer("POST /images", ValidationError("Unsupported file format"))
    /\ Cardinality(DOMAIN imageStorage) = MaxUploadFiles
    /\ \A k \in DOMAIN imageStorage : FileOf(imageStorage[k]) = ExactFile

\* ------------------------------------------- analyze validation (C16-C18)
\* Sessions a request of which passes the rate-limit gate at the clock
\* reading of the state.
WithBudget == {id \in LiveSessions : ~Depleted(id)}

\* imageIds that are present and are not an array, or have more than 5
\* entries, or hold an entry that is not UUID-shaped or not in the store.
BadImageIds(imageIds) ==
    \/ imageIds.kind \in {"string", "number"}
    \/ /\ imageIds.kind = "array"
       /\ \/ Len(imageIds.ids) > MaxImageIds
          \/ \E i \in 1..Len(imageIds.ids) :
                ~isUuid(imageIds.ids[i]) \/ imageIds.ids[i] \notin DOMAIN imageStorage

\* C16: on a live session with budget, an analyze request whose imageIds is
\* present and is not an array, has more than 5 entries, or holds an entry
\* that is not UUID-shaped or not stored, is answered 400 validation_error
\* and the collaborator is not invoked.
C16_BadImageIdsRejected ==
    \A id \in WithBudget, i \in ImageIdsInputs :
        BadImageIds(i) =>
            \A p \in PromptInputs, d \in ClockSkew :
                LET outcome == analyze(AnalyzeBody(id, i, p), d)
                IN  IsValidationError(outcome.response) /\ outcome.calls = EmptyBag

\* imageIds missing, and imageIds an empty array.
NoImageIds == {[kind |-> "missing", ids |-> << >>], [kind |-> "array", ids |-> << >>]}

\* C17: on a live session, an analyze request whose imageIds is missing or
\* is an empty array is rejected with HTTP 400 and the collaborator is not
\* invoked.
C17_ImageIdsRequired ==
    \A id \in WithBudget, i \in NoImageIds, p \in ValidPrompts, d \in ClockSkew :
        LET outcome == analyze(AnalyzeBody(id, i, p), d)
        IN  outcome.response.status = 400 /\ outcome.calls = EmptyBag

\* A prompt that is a string, non-empty after trimming, of at most 2000
\* characters.
GoodPrompt(prompt) ==
    prompt.kind = "string" /\ prompt.trimmed > 0 /\ prompt.length <= MaxPromptLength

LongestPrompt == Prompt("string", MaxPromptLength, MaxPromptLength)

\* The imageIds the prompt cases are tried with: none, one stored image
\* (owned or not), and a value that is not an array.
PromptCaseImageIds ==
    NoImageIds
    \cup {[kind |-> "array", ids |-> <<a>>] : a \in StoredRefs}
    \cup {[kind |-> "number", ids |-> << >>]}

\* imageIds that pass the checks for a session: none, or images it owns.
PassesImageChecks(imageIds, sessionId) ==
    /\ imageIds.kind \in {"missing", "array"}
    /\ Len(imageIds.ids) <= MaxImageIds
    /\ OwnsAll(sessionId, imageIds.ids)
PassingImageIds(sessionId) == {i \in ImageIdsInputs : PassesImageChecks(i, sessionId)}

\* C18 as stated: every analyze request with a prompt that is missing, not a
\* string, empty or whitespace-only, or of 2001 characters is rejected with
\* a validation_error; a prompt of exactly 2000 characters is accepted.
C18_Original ==
    \A id \in LiveSessions, d \in ClockSkew :
        \A i \in PassingImageIds(id), p \in PromptInputs :
            LET outcome == analyze(AnalyzeBody(id, i, p), d)
            IN  IF GoodPrompt(p)
                THEN outcome.response = Awaiting
                ELSE IsValidationError(outcome.response) /\ outcome.calls = EmptyBag

\* C18 amended: a request reaches the collaborator only if its prompt is a
\* string, non-empty after trimming, of at most 2000 characters; any other
\* prompt is rejected, with 429 when the gate refuses the session and with a
\* validation_error otherwise; a prompt of exactly 2000 characters on a
\* session with budget reaches the collaborator.
C18_PromptValidated ==
    \A s \in SessionInputs, i \in PromptCaseImageIds, p \in PromptInputs, d \in ClockSkew :
        LET outcome == analyze(AnalyzeBody(s, i, p), d)
        IN  /\ outcome.calls # EmptyBag => GoodPrompt(p)
            /\ (~GoodPrompt(p) /\ s \in LiveSessions) => Rejected(outcome)
            /\ (p = LongestPrompt /\ s \in WithBudget /\ PassesImageChecks(i, s)) =>
                  /\ outcome.response = Awaiting
                  /\ \A call \in BagToSet(outcome.calls) : call.prompt = LongestPrompt

\* An analyze request without a prompt has been answered with the prompt
\* error; no call is in flight and nothing was recorded.
C18_Witness ==
    /\ Answered("POST /analyze", "prompt is required")
    /\ resp.status = 400
    /\ pending = EmptyBag
    /\ analysisRequests = << >>

\* ------------------------------------------------ analysis records (C19-C20)
\* C19: every stored AnalysisRecord has status completed and a result, is
\* stored under its requestId, and GET /analyze/:requestId answers 200 for
\* it, never 202.
C19_RecordsCompleted ==
    /\ \A k \in DOMAIN analysisRequests :
          LET record == analysisRequests[k]
          IN  /\ record.status = "completed"
              /\ record.result # Null
              /\ (record.status = "completed") <=> (record.result # Null)
              /\ record.status \notin {"pending", "processing"}
              /\ record.requestId = k
              /\ getAnalysis(k).status = 200
              /\ getAnalysis(k).analysisStatus = "completed"
    /\ resp.op = "GET /analyze" => resp.status # 202

\* GET /analyze/:requestId has just answered 200 for a stored record.
C19_Witness ==
    /\ resp = Answer("GET /analyze", Response(200, "", "completed"))
    /\ analysisRequests # << >>

\* --------------------------------------- the routes with the session sweep
\* deleteSession and cleanupExpiredSessions are exported by session.ts for
\* the host of the application to call; here they run between the steps of
\* the routes, also while collaborator calls are in flight. Time passes by
\* exactly the expiry age, by a millisecond, and by both.
SweepWaitSteps == {EXPIRY_TIME, 1, EXPIRY_TIME + 1}

WaitSweep == \E d \in SweepWaitSteps : WaitFor(d)

NextSweep ==
    \/ WaitSweep
    \/ PostSession
    \/ PostImages
    \/ PostAnalyze
    \/ AnalyzeReturns
    \/ AnalyzeThrows
    \/ PostVideo
    \/ VideoReturns
    \/ VideoThrows
    \/ DeleteSession
    \/ CleanupExpiredSessions

SpecSweep == InitHttp /\ [][NextSweep]_vars

\* The stores of the application and of the session module.
stores == <<RATE_LIMITS, sessions, imageStorage, analysisRequests, videoOperations>>

RecordsOf(sessionId) ==
    {k \in DOMAIN analysisRequests : analysisRequests[k].sessionId = sessionId}

\* Limits that are integers, written in digits.
IntegerLimits == {limit \in LimitInputs : limit.kind = "digits"}
InRange(limit) == limit.n >= 1 /\ limit.n <= MaxHistoryLimit

\* The answer holds min(limit, totalCount) records of the session, newest
\* first, none of them older than a record it leaves out.
HistoryPage(sessionId, limitValue, answer) ==
    LET mine == RecordsOf(sessionId)
        returned == {answer.analyses[i].requestId : i \in 1..Len(answer.analyses)}
    IN  /\ answer.status = 200
        /\ answer.totalCount = Cardinality(mine)
        /\ answer.hasMore = (Cardinality(mine) > limitValue)
        /\ Len(answer.analyses) = Min(limitValue, Cardinality(mine))
        /\ Cardinality(returned) = Len(answer.analyses)
        /\ returned \subseteq mine
        /\ \A i \in 1..Len(answer.analyses) :
              answer.analyses[i] = historyItem(analysisRequests[answer.analyses[i].requestId])
        /\ \A i \in 1..(Len(answer.analyses) - 1) :
              analysisRequests[answer.analyses[i].requestId].createdAt
                  >= analysisRequests[answer.analyses[i + 1].requestId].createdAt
        /\ \A k \in returned, other \in mine \ returned :
              analysisRequests[k].createdAt >= analysisRequests[other].createdAt

\* C21: for a live session, history with a limit in 1..50 (10 when absent)
\* returns exactly min(limit, totalCount) analyses, all of that session,
\* newest first by createdAt, with totalCount the number of the session's
\* records and hasMore = (totalCount > limit); a limit outside 1..50 is
\* answered with a validation error.
C21_HistoryPage ==
    \A id \in LiveSessions :
        /\ HistoryPage(id, DefaultHistoryLimit, history(id, MissingLimit))
        /\ \A limit \in IntegerLimits :
              IF InRange(limit)
              THEN HistoryPage(id, limit.n, history(id, limit))
              ELSE IsValidationError(history(id, limit))

\* History has just been answered for a session that has two records made
\* at different times, so a limit of 1 leaves the older one out.
C21_Witness ==
    /\ resp = Answer("GET /history", [status |-> 200, message |-> "history"])
    /\ \E id \in LiveSessions :
          /\ Cardinality(RecordsOf(id)) = 2
          /\ \E k \in RecordsOf(id), other \in RecordsOf(id) :
                analysisRequests[k].createdAt > analysisRequests[other].createdAt
          /\ history(id, LimitText("digits", 1)).hasMore
          /\ Len(history(id, LimitText("digits", 1)).analyses) = 1

\* ------------------------------------------------------------- export (C22)
\* The record store, and the stores that differ from it in one record that
\* is not completed or has no result.
RecordStores ==
    {analysisRequests}
    \cup {[analysisRequests EXCEPT ![k].status = st] :
            k \in DOMAIN analysisRequests, st \in {"pending", "processing", "failed"}}
    \cup {[analysisRequests EXCEPT ![k].result = Null] : k \in DOMAIN analysisRequests}

Exportable(store, requestId) ==
    /\ requestId \in DOMAIN store
    /\ store[requestId].status = "completed"
    /\ store[requestId].result # Null

\* C22 as stated: export of a requestId that is absent from the store, or
\* whose record is not completed or has no result, answers 404 not_found;
\* export answers 200 only for a stored, completed record with a result.
C22_Original ==
    \A store \in RecordStores, requestId \in RequestRefs, format \in FormatInputs :
        LET answer == exportIn(store, requestId, format)
        IN  /\ answer.status = 200 => Exportable(store, requestId)
            /\ ~Exportable(store, requestId) =>
                  answer.status = 404 /\ answer.error = "not_found"

\* C22 amended: export never answers with a success body for a requestId
\* that is absent from the store or whose record is not completed or has no
\* result: it answers 404 not_found when the requestId is UUID-shaped and
\* the format is supported, and 400 validation_error otherwise; it answers
\* 200 only for a stored, completed record with a result.
C22_ExportNotFound ==
    \A store \in RecordStores, requestId \in RequestRefs, format \in FormatInputs :
        LET answer == exportIn(store, requestId, format)
        IN  /\ answer.status = 200 => Exportable(store, requestId)
            /\ ~Exportable(store, requestId) =>
                  IF isUuid(requestId) /\ formatOf(format) \in supportedFormats
                  THEN answer.status = 404 /\ answer.error = "not_found"
                  ELSE IsValidationError(answer)
            /\ (Exportable(store, requestId) /\ formatOf(format) \in supportedFormats) =>
                  answer = Exported(store[requestId], formatOf(format))

\* With a record stored, export of a request id that was never issued has
\* just been answered 404.
C22_Witness ==
    /\ resp = Answer("GET /export", NotFound("Analysis request not found"))
    /\ analysisRequests # << >>

\* ------------------------------------------------- frame of rejections (C23)
\* C23: every upload or analyze request that is answered 400
\* validation_error leaves the session store (both counters of every
\* session included), the image store and the record store as they were.
C23_ValidationChangesNothing ==
    [][(resp'.op \in {"POST /analyze", "POST /images"} /\ resp'.status = 400) =>
          UNCHANGED <<sessions, imageStorage, analysisRequests>>]_vars

\* --------------------------------------------- collaborator failure (C24)
\* C24: a validated analyze request invokes the collaborator once; when the
\* call fails the request is answered 500, the call is gone and none is
\* issued in its place, and no AnalysisRecord is added.
C24_FailureIsFinal ==
    [][/\ BagCardinality(pending') > BagCardinality(pending) =>
             /\ BagCardinality(pending') = BagCardinality(pending) + 1
             /\ resp' = Answer(resp'.op, Awaiting)
       /\ BagCardinality(pending') <= BagCardinality(pending) => pending' \sqsubseteq pending
       /\ (resp'.op = "POST /analyze" /\ BagCardinality(pending') < BagCardinality(pending)) =>
             /\ BagCardinality(pending') = BagCardinality(pending) - 1
             /\ \/ /\ resp'.status = 500
                   /\ UNCHANGED <<analysisRequests, nextRequestId>>
                \/ /\ resp'.status = 200
                   /\ Cardinality(DOMAIN analysisRequests')
                          = Cardinality(DOMAIN analysisRequests) + 1
       /\ (resp'.op = "POST /analyze" /\ resp'.status = 500) =>
             /\ UNCHANGED <<analysisRequests, nextRequestId>>
             /\ BagCardinality(pending') = BagCardinality(pending) - 1]_vars

\* The collaborator has failed for the only analyze request made: the
\* request was answered 500, no call is left and no record is stored.
C24_Witness ==
    /\ resp = Answer("POST /analyze", InternalError("Failed to process analysis request"))
    /\ pending = EmptyBag
    /\ analysisRequests = << >>
    /\ \E id \in DOMAIN sessions : Requests(id).remaining < Requests(id).limit

\* ------------------------------------------------------ session sweep (C25)
Age(id) == now - sessions[id].createdAt

CheckedLimits == sessions[resp.sessionId].rateLimits
Taken == IF resp.allowed THEN resp.amount ELSE 0

\* C26: a check of kind K that finds K's window expired resets K's counter
\* to remaining = limit (from which an allowed amount is then taken) with
\* resetAt = the next minute boundary; the other counter is reset to
\* remaining = limit with that same resetAt exactly when its own window has
\* expired too and is unchanged otherwise; a check that finds K's window
\* running resets neither counter.
C26_ResetCoupling ==
    Checked =>
      LET own == limitKey(resp.type)
          other == otherKey(resp.type)
          before == resp.before
          after == CheckedLimits
      IN  IF resp.at >= before[own].resetAt
          THEN /\ after[own].resetAt = getNextMinuteBoundary(now)
               /\ after[own].resetAt > resp.at
               /\ after[own].remaining = after[own].limit - Taken
               /\ IF resp.at >= before[other].resetAt
                  THEN after[other] = ResetInfo(before[other], after[own].resetAt)
                  ELSE after[other] = before[other]
          ELSE /\ after[other] = before[other]
               /\ after[own].resetAt = before[own].resetAt
               /\ after[own].remaining = before[own].remaining - Taken

\* A check of tokens finds both windows expired with the request counter
\* partly spent, and resets both.
C26_Witness ==
    /\ Checked
    /\ resp.type = "tokens"
    /\ resp.at >= resp.before.tokensPerMinute.resetAt
    /\ resp.before.requestsPerMinute.remaining < resp.before.requestsPerMinute.limit
    /\ CheckedLimits.requestsPerMinute.remaining = CheckedLimits.requestsPerMinute.limit
    /\ CheckedLimits.requestsPerMinute.resetAt = CheckedLimits.tokensPerMinute.resetAt
    /\ CheckedLimits.requestsPerMinute.resetAt > resp.before.requestsPerMinute.resetAt

Refused == Checked /\ ~resp.allowed

\* C27 as stated: every checkRateLimit call that returns allowed = false on
\* an existing session leaves both counters of the session exactly as they
\* were before the call.
C27_Original == Refused => CheckedLimits = resp.before

\* C27: a refused checkRateLimit call takes nothing from either counter; it
\* leaves both counters exactly as they were when the window of the checked
\* kind is still running, and when that window has expired it leaves them as
\* the reset alone makes them (the checked counter full with the new
\* resetAt, the other one full with that resetAt or untouched).
C27_RefusalTakesNothing ==
    Refused =>
      LET own == limitKey(resp.type)
          other == otherKey(resp.type)
          before == resp.before
          after == CheckedLimits
      IN  IF resp.at < before[own].resetAt
          THEN after = before
          ELSE /\ after[own] = ResetInfo(before[own], getNextMinuteBoundary(now))
               /\ after[other] \in {before[other],
                                    ResetInfo(before[other], after[own].resetAt)}

\* A call asking for more tokens than the limit is refused after its
\* expired window was reset; another is refused in a running window.
C27_Witness ==
    /\ Refused
    /\ resp.at >= resp.before[limitKey(resp.type)].resetAt
    /\ resp.before[limitKey(resp.type)].remaining < resp.before[limitKey(resp.type)].limit
    /\ CheckedLimits # resp.before

\* C28: in every state reached by createSession and checkRateLimit calls of
\* either kind at any times, the two counters of every session carry the
\* same resetAt.
C28_OneResetAt ==
    \A id \in DOMAIN sessions : Requests(id).resetAt = Tokens(id).resetAt

\* A session whose windows were reset after its first minute and whose two
\* counters were both drawn on since.
C28_Witness ==
    \E id \in DOMAIN sessions :
        /\ Requests(id).resetAt > getNextMinuteBoundary(sessions[id].createdAt) + MsPerMinute
        /\ Requests(id).resetAt = Tokens(id).resetAt
        /\ Requests(id).remaining < Requests(id).limit
        /\ Tokens(id).remaining < Tokens(id).limit

AnalyzeCalls(bag) == {call \in BagToSet(bag) : call.kind = "analyze"}
CreatedSessions == {SessionId(n) : n \in 1..(nextSessionId - 1)}
NewRecords == {analysisRequests'[k] : k \in (DOMAIN analysisRequests') \ (DOMAIN analysisRequests)}

\* C30: an analyze request joins the calls in flight only while its session
\* is in the session store and every image it names is stored and owned by
\* that session; every call in flight and every stored AnalysisRecord keeps
\* the sessionId and imageIds validated then; and a call that returns is
\* answered 200 and stores its record, with those ids, whether or not the
\* session is still in the store (it is answered 500 without a record only
\* when the collaborator fails).
C30_ValidatedOnceThenStored ==
    /\ [](/\ \A k \in DOMAIN analysisRequests :
               /\ analysisRequests[k].sessionId \in CreatedSessions
               /\ OwnsAll(analysisRequests[k].sessionId, analysisRequests[k].imageIds)
          /\ \A call \in AnalyzeCalls(pending) :
               /\ call.sessionId \in CreatedSessions
               /\ OwnsAll(call.sessionId, call.imageIds))
    /\ [][/\ \A call \in AnalyzeCalls(pending') :
               CopiesIn(call, pending') > CopiesIn(call, pending) =>
                  /\ call.sessionId \in DOMAIN sessions
                  /\ OwnsAll(call.sessionId, call.imageIds)
          /\ \A call \in AnalyzeCalls(pending) :
               CopiesIn(call, pending') < CopiesIn(call, pending) =>
                  /\ resp'.op = "POST /analyze"
                  /\ \/ resp'.status = 500 /\ UNCHANGED analysisRequests
                     \/ /\ resp'.status = 200
                        /\ \E record \in NewRecords :
                              /\ record.sessionId = call.sessionId
                              /\ record.imageIds = call.imageIds]_vars

\* The collaborator has just returned for a request that named an image and
\* whose session left the store while the call was in flight: the request
\* is answered 200 and its record is stored.
C30_Witness ==
    /\ resp = Answer("POST /analyze", Response(200, "", "completed"))
    /\ RequestId(nextRequestId - 1) \in DOMAIN analysisRequests
    /\ LET record == analysisRequests[RequestId(nextRequestId - 1)]
       IN  /\ record.sessionId \notin DOMAIN sessions
           /\ record.sessionId \in CreatedSessions
           /\ Len(record.imageIds) > 0
           /\ OwnsAll(record.sessionId, record.imageIds)

====
